---- MODULE Spec2Model ----
(***************************************************************************)
(* Memory-storage MCP server: store / search / forget over a vector-capable *)
(* backend.  Two servers of src/mcp-server.js are modelled, selected by the *)
(* configuration variable `backend`:                                        *)
(*   "postgres"  PostgresMCPServer (pg pool + pgvector + tsvector)          *)
(*   "milvus"    MilvusMCPServer   (Milvus client, FLAT + BM25)             *)
(* Every await of the handlers is one step of a call, so concurrent calls   *)
(* interleave exactly at the await points of the code.                      *)
(***************************************************************************)
EXTENDS Integers, Sequences, FiniteSets, TLC

\* ------------------------------------------------------------------ bounds
NumProcs    == 2       \* calls that may be in flight at the same time
MaxStores   == 2       \* store_memory calls started in one behaviour
MaxSearches == 1       \* search_memory calls started in one behaviour
MaxForgets  == 2       \* forget_memory calls started in one behaviour
MaxAwaitedForgets == 1 \* of them by a client that awaits each response
MaxClock    == 2       \* last millisecond Date.now() reaches
MaxFailures == 1       \* failures of the backend / embedding service

Procs == 1..NumProcs

\* ------------------------------------------------------- JavaScript values
\* Strings that the code inspects character by character (collection names,
\* memory ids) are sequences of one-character strings; every other JS value
\* is a tuple whose first element is its type tag.
Undefined == <<"undefined">>
JNull     == <<"null">>
JTrue     == <<"bool", "true">>
JNum(n)   == <<"num", n>>
JStr(s)   == <<"str", s>>
JArr(xs)  == <<"arr", xs>>
JObj(kvs) == <<"obj", kvs>>
EmptyObj  == JObj(<<>>)

Lower  == {"a", "b", "e", "k", "m"}
Upper  == {"A", "B"}
Digit  == {"0", "1", "2", "3", "4", "5", "6", "7", "8", "9"}
Letter == Lower \cup Upper
Digits == <<"0", "1", "2", "3", "4", "5", "6", "7", "8", "9">>

\* JS truthiness of a string-or-undefined value: undefined and "" are falsy.
FalsyStr(s) == s = Undefined \/ s = <<>>

\* /^[a-zA-Z_][a-zA-Z0-9_]*$/.test(tableName)
IsIdentifier(s) ==
    /\ Len(s) >= 1
    /\ s[1] \in Letter \cup {"_"}
    /\ \A i \in 2..Len(s) : s[i] \in Letter \cup Digit \cup {"_"}

\* args.id.match(/^mem_\d+_[a-z0-9]+$/)
MatchesIdPattern(s) ==
    /\ Len(s) >= 7
    /\ SubSeq(s, 1, 4) = <<"m", "e", "m", "_">>
    /\ \E i \in 5..(Len(s) - 2) :
          /\ \A k \in 5..i : s[k] \in Digit
          /\ s[i + 1] = "_"
          /\ \A k \in (i + 2)..Len(s) : s[k] \in Lower \cup Digit

\* !args.id || !args.id.match(...)
InvalidIdFormat(id) == FalsyStr(id) \/ ~MatchesIdPattern(id)

RECURSIVE DecStr(_)
\* `${Date.now()}`: the decimal digits of a non-negative integer
DecStr(n) == IF n < 10 THEN <<Digits[n + 1]>>
             ELSE DecStr(n \div 10) \o <<Digits[(n % 10) + 1]>>

\* Math.random().toString(36).substr(2, 9): up to nine base-36 digits; the
\* empty string when Math.random() returns 0.
RandomSuffixes == { <<>>, <<"k">> }

\* `mem_${Date.now()}_${Math.random().toString(36).substr(2, 9)}`
GeneratedId(now, sfx) == <<"m", "e", "m", "_">> \o DecStr(now) \o <<"_">> \o sfx

\* PostgreSQL folds an unquoted identifier to lower case before it names a
\* relation; information_schema.tables.table_name holds the folded name.
ToLowerChar(c) == CASE c = "A" -> "a" [] c = "B" -> "b" [] OTHER -> c
PgFold(s) == [i \in DOMAIN s |-> ToLowerChar(s[i])]

\* ------------------------------------------------------------ JSON values
IsObj(v)  == v[1] = "obj"
IsArr(v)  == v[1] = "arr"
Keys(o)   == { o[2][i][1] : i \in DOMAIN o[2] }
Get(o, k) == LET i == CHOOSE j \in DOMAIN o[2] : o[2][j][1] = k IN o[2][i][2]

\* Order in which jsonb keeps the keys of an object: shorter keys first, then
\* bytewise.
JsonbKeyOrder == <<"a", "b", "k", "l", "n", "z">>

RECURSIVE JsonbNormal(_)
\* The value a jsonb column holds for a JSON input: object keys reordered,
\* everything else kept.
JsonbNormal(v) ==
    IF IsObj(v)
    THEN LET ord == SelectSeq(JsonbKeyOrder, LAMBDA k : k \in Keys(v))
         IN  JObj([i \in DOMAIN ord |-> <<ord[i], JsonbNormal(Get(v, ord[i]))>>])
    ELSE IF IsArr(v)
    THEN JArr([i \in DOMAIN v[2] |-> JsonbNormal(v[2][i])])
    ELSE v

RECURSIVE DeepEqual(_, _)
\* Deep equality of two JSON values: objects by key set and per-key value,
\* arrays by position, leaves by identity.
DeepEqual(x, y) ==
    IF x[1] # y[1] THEN FALSE
    ELSE IF IsObj(x)
    THEN /\ Keys(x) = Keys(y)
         /\ \A k \in Keys(x) : DeepEqual(Get(x, k), Get(y, k))
    ELSE IF IsArr(x)
    THEN /\ Len(x[2]) = Len(y[2])
         /\ \A i \in DOMAIN x[2] : DeepEqual(x[2][i], y[2][i])
    ELSE x = y

\* JSON.stringify(v): the JSON text of v (key order of v preserved)
JsonStringify(v) == <<"text", v>>
\* JSON.parse(t) of a text produced by JSON.stringify
JsonParse(t) == t[2]

\* Faulty variant of MetadataOrEmpty: the metadata argument is ignored
MetadataOrEmpty_Dropped(m) == EmptyObj

\* args.metadata || {}
MetadataOrEmpty(m) == IF m = Undefined THEN EmptyObj ELSE m


\* ------------------------------------------------------ model registry
DEFAULT_EMBEDDING_MODEL == "google/text-embedding-004"

\* EMBEDDING_DIMENSIONS of the embedding library: model id -> vector length
EMBEDDING_DIMENSIONS ==
    [m \in {"google/text-embedding-004", "openai/text-embedding-3-small"} |->
        IF m = "google/text-embedding-004" THEN 768 ELSE 1536]

\* EMBEDDING_DIMENSIONS[model]: undefined (falsy, here 0) for an unknown id
DimensionFor(m) ==
    IF m \in DOMAIN EMBEDDING_DIMENSIONS THEN EMBEDDING_DIMENSIONS[m] ELSE 0

\* Object.keys(EMBEDDING_DIMENSIONS), in the order of the registry
AvailableModels == <<"google/text-embedding-004", "openai/text-embedding-3-small">>

\* ------------------------------------------------------------- errors
\* An Error value: <<"err", kind, detail>>; the kind stands for the fixed
\* message template of the code, the detail for the value interpolated in it.
Err(kind, detail) == <<"err", kind, detail>>
ErrKind(e) == e[2]
BackendFailure(reason) == Err("BackendFailure", <<reason>>)
\* `Model '${this.embeddingModel}' not found in EMBEDDING_DIMENSIONS. Available
\* models: ${availableModels.join(', ')}`
UnknownModel(model) == Err("UnknownModel", <<model>> \o AvailableModels)

\* ---------------------------------------------------------- embeddings
\* Texts are sequences of words.  The external embedding capability maps a
\* text to a point; it is a function of the text but not an injective one
\* (a model reads a bounded prefix of its input), so two different texts can
\* have the same vector.
WordPos(w) == CASE w = "cat" -> 0 [] w = "fox" -> 2 [] OTHER -> 5
embedText(model, text) ==
    <<"vec", DimensionFor(model), IF text = <<>> THEN 9 ELSE WordPos(text[1])>>
VecDim(v) == v[2]
VecPos(v) == v[3]
\* embedding <-> $1 : L2 distance of two vectors of one dimension
Distance(v, w) == IF VecPos(v) >= VecPos(w) THEN VecPos(v) - VecPos(w)
                  ELSE VecPos(w) - VecPos(v)

\* ---------------------------------------------------------- envelopes
\* An object literal handed to JSON.stringify: members whose value is
\* undefined are dropped from the text.
Literal(kvs) == JObj(SelectSeq(kvs, LAMBDA kv : kv[2] # Undefined))

\* { content: [{type:'text', text: JSON.stringify({success:true, ...})}] }
SuccessResponse(operation, result) ==
    [ text    |-> JsonStringify(Literal(<< <<"success", JTrue>>,
                                           <<"operation", JStr(<<operation>>)>>,
                                           <<"result", result>> >>)),
      isError |-> FALSE ]

\* Faulty variant of ErrorResponse: the error envelope without the
\* out-of-band flag
ErrorResponse_Unflagged(operation, error) ==
    [ text    |-> JsonStringify(Literal(<< <<"success", <<"bool", "false">> >>,
                                           <<"operation", JStr(<<operation>>)>>,
                                           <<"error", error>> >>)),
      isError |-> FALSE ]

\* { content: [{... JSON.stringify({success:false, ...})}], isError: true }
ErrorResponse(operation, error) ==
    [ text    |-> JsonStringify(Literal(<< <<"success", <<"bool", "false">> >>,
                                           <<"operation", JStr(<<operation>>)>>,
                                           <<"error", error>> >>)),
      isError |-> TRUE ]

\* operation name each handler writes into its envelope
OperationName(op) == IF op = "forget" THEN "delete" ELSE op

\* ------------------------------------------------------------- state
VARIABLES
    backend,          \* which server class is running
    fixedCollection,  \* this.fixedCollection
    embeddingModel,   \* this.embeddingModel
    tables,           \* backend: relation / collection name -> structure
    leased,           \* pg pool: clients checked out and not yet released
    clock,            \* Date.now() / NOW()
    calls,            \* per slot: the handler invocation in flight
    resp,             \* the response a handler returns on this step
    ncalls,           \* per operation: invocations started so far
    failures,         \* failures the environment has caused so far
    nextUid,          \* ghost: serial number of the next row written
    forgotten,        \* ghost: rows removed by a forget that returned success
    stored            \* ghost: rows whose store returned success

vars == <<backend, fixedCollection, embeddingModel, tables, leased, clock,
          calls, resp, ncalls, failures, nextUid, forgotten, stored>>

config == <<backend, fixedCollection, embeddingModel>>

NoArgs == [present |-> FALSE, collection |-> Undefined, content |-> Undefined,
           metadata |-> Undefined, query |-> Undefined, mode |-> Undefined,
           limit |-> Undefined, id |-> Undefined]

Idle == [op |-> "idle", pc |-> "idle", args |-> NoArgs, name |-> Undefined,
         conn |-> FALSE, vec |-> Undefined, id |-> Undefined, uid |-> 0,
         sawTable |-> FALSE, sawRow |-> FALSE, injected |-> FALSE,
         newCollection |-> FALSE, forgottenAtStart |-> {}, storedAtStart |-> {},
         embeds |-> 0]

NoResp == [op |-> "none"]

\* a step on which no handler returns
Silent == resp' = NoResp

\* rows of every collection
AllRows == UNION { tables[n].rows : n \in DOMAIN tables }

\* Faulty variant of getCollectionName: this.fixedCollection || args.collection
getCollectionName_FixedFirst(args) ==
    IF ~FalsyStr(fixedCollection) THEN fixedCollection ELSE args.collection

\* getCollectionName(args): args.collection || this.fixedCollection
getCollectionName(args) ==
    IF ~FalsyStr(args.collection) THEN args.collection ELSE fixedCollection


\* -------------------------------------------------------- tool listing
\* const hasFixedCollection = !!this.fixedCollection
HasFixedCollection == ~FalsyStr(fixedCollection)

\* inputSchema.properties of each tool without the conditional member
BaseProperties ==
    [ store_memory  |-> {"content", "metadata"},
      search_memory |-> {"query", "mode", "limit"},
      forget_memory |-> {"id"} ]

\* The ListTools handler: the argument names each tool advertises, with
\* ...(hasFixedCollection ? {} : {collection: {...}}) spread into each
ListTools ==
    [ t \in DOMAIN BaseProperties |->
        BaseProperties[t] \cup (IF HasFixedCollection THEN {} ELSE {"collection"}) ]

\* ------------------------------------------------------ call plumbing
\* where a handler awaits this.generateEmbedding
EmbedPcs == {"embed", "srch_embed"}

\* What is recorded when the invocation c returns `response`: the response
\* itself and the facts about the call that the properties below talk about.
Recorded(c, response, ghost) ==
    [ op |-> c.op, args |-> c.args, name |-> c.name, pc |-> c.pc,
      text |-> response.text, isError |-> response.isError,
      injected |-> c.injected \/ ghost.injected,
      sawTable |-> c.sawTable, sawRow |-> c.sawRow,
      newCollection |-> c.newCollection, uid |-> c.uid,
      forgottenAtStart |-> c.forgottenAtStart,
      storedAtStart |-> c.storedAtStart,
      embeds |-> c.embeds + (IF c.pc \in EmbedPcs THEN 1 ELSE 0),
      hits |-> ghost.hits, removed |-> ghost.removed, view |-> ghost.view ]

NoGhost == [injected |-> FALSE, hits |-> <<>>, removed |-> {}, view |-> {}]

\* Faulty variant of Return: the handler leaves without its finally block, a
\* client it holds stays checked out
Return_Leaky(p, response, ghost) ==
    /\ resp' = Recorded(calls[p], response, ghost)
    /\ calls' = [calls EXCEPT ![p] = Idle]
    /\ leased' = leased
    /\ failures' = IF ghost.injected THEN failures + 1 ELSE failures

\* A handler returns: the slot becomes idle.  A client the handler holds is
\* released by its finally block on the way out.
Return(p, response, ghost) ==
    /\ resp' = Recorded(calls[p], response, ghost)
    /\ calls' = [calls EXCEPT ![p] = Idle]
    /\ leased' = IF calls[p].conn THEN leased - 1 ELSE leased
    /\ failures' = IF ghost.injected THEN failures + 1 ELSE failures

\* catch (error) { return <error envelope> }: the handler's failure exit
Throw(p, error) ==
    Return(p, ErrorResponse(OperationName(calls[p].op), error), NoGhost)

\* The same, for a failure of the backend or of the embedding capability that
\* the environment chose.
ThrowInjected(p, error) ==
    /\ failures < MaxFailures
    /\ Return(p, ErrorResponse(OperationName(calls[p].op), error),
              [NoGhost EXCEPT !.injected = TRUE])

Goto(p, label) == calls' = [calls EXCEPT ![p].pc = label]

At(p, label) == calls[p].pc = label

\* the relation / collection the backend keeps under a name
TableOf(name) == IF backend = "postgres" THEN PgFold(name) ELSE name

\* A new invocation: const collectionName = this.getCollectionName(args),
\* which fails on an args that is not an object
Fresh(op, args) ==
    LET name == IF args.present THEN getCollectionName(args) ELSE Undefined
    IN  [Idle EXCEPT !.op = op, !.args = args, !.name = name,
                     !.newCollection = TableOf(name) \notin DOMAIN tables,
                     !.forgottenAtStart = forgotten, !.storedAtStart = stored]

\* The slots are interchangeable: a new invocation takes the lowest free one.
CanStart(p) == /\ calls[p].op = "idle"
               /\ \A q \in 1..(p - 1) : calls[q].op # "idle"

MaxCalls == [store |-> MaxStores, search |-> MaxSearches, forget |-> MaxForgets]

\* The handler's synchronous prefix ended in `error` (thrown and caught
\* before any await) or reached its first await at `label`.
Enter(p, c, error, label) ==
    /\ CanStart(p)
    /\ ncalls[c.op] < MaxCalls[c.op]
    /\ ncalls' = [ncalls EXCEPT ![c.op] = @ + 1]
    /\ IF error[2] # "none"
       THEN /\ resp' = Recorded(c, ErrorResponse(OperationName(c.op), error),
                                NoGhost)
            /\ UNCHANGED calls
       ELSE /\ calls' = [calls EXCEPT ![p] = [c EXCEPT !.pc = label]]
            /\ Silent
    /\ UNCHANGED <<config, tables, leased, clock, failures, nextUid, forgotten,
                   stored>>

NoErr == <<"err", "none", <<>>>>

\* ensureTable / ensureCollection up to the first await: the synchronous
\* checks, in the order of the code.
EnsurePrefixError(name) ==
    IF FalsyStr(name)
    THEN Err("CollectionRequired", <<>>)
    ELSE IF backend = "postgres" /\ ~IsIdentifier(name)
    THEN Err("InvalidCollectionName", <<>>)
    ELSE IF backend = "postgres" /\ DimensionFor(embeddingModel) = 0
    THEN UnknownModel(embeddingModel)
    ELSE NoErr

\* First await of ensureTable (pool.connect) / ensureCollection (hasCollection)
EnsureEntry == IF backend = "postgres" THEN "ens_connect" ELSE "m_has"

\* getCollectionName(args) on an args that is not an object
ArgsTypeError == Err("TypeError", <<>>)

\* storeMemory(args), up to its first await
storeMemory(p, args) ==
    LET c == Fresh("store", args)
    IN  Enter(p, c,
              IF ~args.present THEN ArgsTypeError ELSE EnsurePrefixError(c.name),
              EnsureEntry)

\* searchMemory(args), up to its first await
searchMemory(p, args) ==
    LET c == Fresh("search", args)
    IN  Enter(p, c,
              IF ~args.present THEN ArgsTypeError ELSE EnsurePrefixError(c.name),
              EnsureEntry)

\* Faulty variant of forgetMemory: the id reaches the backend unvalidated
forgetMemory_Unchecked(p, args) ==
    Enter(p, Fresh("forget", args),
              IF ~args.present THEN ArgsTypeError ELSE NoErr,
              IF backend = "postgres" THEN "fg_connect" ELSE "m_fhas")

\* forgetMemory(args), up to its first await: the collection name is
\* resolved but not checked, then the id shape is validated.
forgetMemory(p, args) ==
    Enter(p, Fresh("forget", args),
              IF ~args.present THEN ArgsTypeError
              ELSE IF InvalidIdFormat(args.id)
              THEN Err("InvalidIdFormat", args.id)
              ELSE NoErr,
              IF backend = "postgres" THEN "fg_connect" ELSE "m_fhas")

\* args.mode || 'semantic'
ModeOf(args) == IF FalsyStr(args.mode) THEN <<"semantic">> ELSE args.mode

\* args.limit || 10
LimitOf(args) ==
    IF args.limit = Undefined \/ args.limit = JNum(0) THEN 10 ELSE args.limit[2]

\* Where a handler continues when its ensure call has returned.  The Milvus
\* searchMemory dispatches on the mode right there; the PostgreSQL one first
\* takes a client from the pool.
AfterEnsure(c) ==
    CASE c.op = "store"  -> "embed"
      [] c.op = "forget" -> "m_query"
      [] c.op = "search" /\ backend = "postgres" -> "srch_connect"
      [] c.op = "search" /\ ModeOf(c.args) = <<"semantic">> -> "srch_embed"
      [] c.op = "search" /\ ModeOf(c.args) = <<"fulltext">> -> "m_search"
      [] OTHER -> "bad_mode"

UnknownSearchMode(args) == Err("UnknownSearchMode", ModeOf(args))

\* ------------------------------------------------- PostgreSQL: the pool
PgConnectNext(c) ==
    CASE c.pc = "ens_connect" -> "ens_check"
      [] c.pc = "ins_connect" -> "insert"
      [] c.pc = "fg_connect"  -> "fg_check"
      [] c.pc = "srch_connect" /\ ModeOf(c.args) = <<"semantic">> -> "srch_embed"
      [] c.pc = "srch_connect" /\ ModeOf(c.args) = <<"fulltext">> -> "srch_query"
      [] OTHER -> "bad_mode"

\* const client = await this.pool.connect(), and the synchronous code that
\* follows it.  In searchMemory that code dispatches on the mode: an unknown
\* mode throws with the client held, and the finally block releases it.
PoolConnect(p) ==
    /\ calls[p].pc \in {"ens_connect", "ins_connect", "fg_connect", "srch_connect"}
    /\ \/ /\ PgConnectNext(calls[p]) # "bad_mode"
          /\ calls' = [calls EXCEPT ![p].pc = PgConnectNext(calls[p]),
                                    ![p].conn = TRUE]
          /\ leased' = leased + 1
          /\ Silent /\ UNCHANGED failures
       \/ /\ PgConnectNext(calls[p]) = "bad_mode"
          /\ Throw(p, UnknownSearchMode(calls[p].args))
       \/ ThrowInjected(p, BackendFailure("connect"))
    /\ UNCHANGED <<config, tables, clock, ncalls, nextUid, forgotten, stored>>

\* client.release() in the finally block of ensureTable, which then returns
\* to its caller.
EnsureTableReturns(p) ==
    /\ calls' = [calls EXCEPT ![p].pc = AfterEnsure(calls[p]), ![p].conn = FALSE]
    /\ leased' = leased - 1
    /\ Silent /\ UNCHANGED failures

\* SELECT EXISTS (SELECT FROM information_schema.tables WHERE table_name = $1)
\* The parameter is compared as a string with the names the catalog holds.
TableExists(name) == name \in DOMAIN tables

\* ensureTable: the existence check
CheckTable(p) ==
    /\ At(p, "ens_check")
    /\ \/ /\ TableExists(calls[p].name)
          /\ EnsureTableReturns(p)
       \/ /\ ~TableExists(calls[p].name)
          /\ Goto(p, "ens_create")
          /\ Silent /\ UNCHANGED <<leased, failures>>
       \/ ThrowInjected(p, BackendFailure("query"))
    /\ UNCHANGED <<config, tables, clock, ncalls, nextUid, forgotten, stored>>

\* A relation as CREATE TABLE leaves it: no index yet, no row
NewTable(dim) == [dim |-> dim, fts |-> FALSE, vec |-> FALSE, loaded |-> TRUE,
                  rows |-> {}]

\* ensureTable: CREATE TABLE ${tableName} (... embedding vector(${expectedDim}) ...)
\* The statement names the relation by the folded identifier and fails when
\* that relation exists.
CreateTable(p) ==
    /\ At(p, "ens_create")
    /\ \/ /\ PgFold(calls[p].name) \notin DOMAIN tables
          /\ tables' = [n \in DOMAIN tables \cup {PgFold(calls[p].name)} |->
                          IF n \in DOMAIN tables THEN tables[n]
                          ELSE NewTable(DimensionFor(embeddingModel))]
          /\ Goto(p, "ens_fts")
          /\ Silent /\ UNCHANGED <<leased, failures>>
       \/ /\ PgFold(calls[p].name) \in DOMAIN tables
          /\ Throw(p, BackendFailure("duplicate_table"))
          /\ UNCHANGED tables
       \/ /\ ThrowInjected(p, BackendFailure("query"))
          /\ UNCHANGED tables
    /\ UNCHANGED <<config, clock, ncalls, nextUid, forgotten, stored>>

\* ensureTable: CREATE INDEX ${tableName}_content_fts_idx ... USING GIN
CreateFtsIndex(p) ==
    /\ At(p, "ens_fts")
    /\ \/ /\ tables' = [tables EXCEPT ![PgFold(calls[p].name)].fts = TRUE]
          /\ Goto(p, "ens_vec")
          /\ Silent /\ UNCHANGED <<leased, failures>>
       \/ /\ ThrowInjected(p, BackendFailure("query"))
          /\ UNCHANGED tables
    /\ UNCHANGED <<config, clock, ncalls, nextUid, forgotten, stored>>

\* ensureTable: CREATE INDEX ${tableName}_embedding_idx ... USING hnsw, then
\* the finally block and the return
CreateVectorIndex(p) ==
    /\ At(p, "ens_vec")
    /\ \/ /\ tables' = [tables EXCEPT ![PgFold(calls[p].name)].vec = TRUE]
          /\ EnsureTableReturns(p)
       \/ /\ ThrowInjected(p, BackendFailure("query"))
          /\ UNCHANGED tables
    /\ UNCHANGED <<config, clock, ncalls, nextUid, forgotten, stored>>

\* ------------------------------------------------------- embedding
\* generateEmbedding's catch: a failure of embedText whose message contains
\* 'API key not found' is reported as missing credentials, any other one as
\* a failed generation.
EmbedFailureMessages == {"API key not found", "rate limit"}
EmbeddingError(message) ==
    IF message = "API key not found"
    THEN Err("CredentialsMissing", <<embeddingModel, message>>)
    ELSE Err("GenerationFailed", <<embeddingModel, message>>)

\* Faulty variant of GenerateEmbedding: a failed embedText call is tried
\* again instead of ending the handler
GenerateEmbedding_Retry(p) ==
    LET c    == calls[p]
        text == IF c.op = "store" THEN c.args.content ELSE c.args.query
    IN  /\ c.pc \in EmbedPcs
        /\ \/ /\ DimensionFor(embeddingModel) # 0
              /\ \E sfx \in RandomSuffixes :
                   calls' = [calls EXCEPT
                      ![p].embeds = @ + 1,
                      ![p].vec = embedText(embeddingModel, text),
                      ![p].id  = IF c.op = "store"
                                 THEN GeneratedId(clock, sfx) ELSE Undefined,
                      ![p].pc  = IF c.op = "store"
                                 THEN (IF backend = "postgres"
                                       THEN "ins_connect" ELSE "m_insert")
                                 ELSE (IF backend = "postgres"
                                       THEN "srch_query" ELSE "m_search")]
              /\ Silent /\ UNCHANGED <<leased, failures>>
           \/ /\ DimensionFor(embeddingModel) = 0
              /\ Throw(p, EmbeddingError("unknown model"))
           \/ /\ failures < MaxFailures
              /\ failures' = failures + 1
              /\ calls' = [calls EXCEPT ![p].embeds = @ + 1, ![p].injected = TRUE]
              /\ Silent /\ UNCHANGED leased
        /\ UNCHANGED <<config, tables, clock, ncalls, nextUid, forgotten, stored>>

\* await this.generateEmbedding(text): the one call of embedText, and the
\* synchronous code after it.  storeMemory then draws the id and starts its
\* insert; searchMemory starts its vector query.
GenerateEmbedding(p) ==
    LET c    == calls[p]
        text == IF c.op = "store" THEN c.args.content ELSE c.args.query
    IN  /\ c.pc \in EmbedPcs
        /\ \/ /\ DimensionFor(embeddingModel) # 0
              /\ \E sfx \in RandomSuffixes :
                   calls' = [calls EXCEPT
                      ![p].embeds = @ + 1,
                      ![p].vec = embedText(embeddingModel, text),
                      ![p].id  = IF c.op = "store"
                                 THEN GeneratedId(clock, sfx) ELSE Undefined,
                      ![p].pc  = IF c.op = "store"
                                 THEN (IF backend = "postgres"
                                       THEN "ins_connect" ELSE "m_insert")
                                 ELSE (IF backend = "postgres"
                                       THEN "srch_query" ELSE "m_search")]
              /\ Silent /\ UNCHANGED <<leased, failures>>
           \/ /\ DimensionFor(embeddingModel) = 0
              /\ Throw(p, EmbeddingError("unknown model"))
           \/ \E m \in EmbedFailureMessages : ThrowInjected(p, EmbeddingError(m))
        /\ UNCHANGED <<config, tables, clock, ncalls, nextUid, forgotten, stored>>

\* ------------------------------------------------------------ store
\* number of UTF-16 units of a text of one-letter-per-unit words joined by
\* single blanks: args.content.length
WordLength(w) == IF w = "cat" \/ w = "dog" \/ w = "fox" \/ w = "yak" THEN 3 ELSE 1
RECURSIVE TextLength(_)
TextLength(t) == IF t = <<>> THEN 0
                 ELSE IF Len(t) = 1 THEN WordLength(t[1])
                 ELSE WordLength(t[1]) + 1 + TextLength(Tail(t))

\* result object of a successful store
StoreResult(c, createdAt) ==
    Literal(<< <<"id", JStr(c.id)>>,
               <<"collection", JStr(c.name)>>,
               <<"content_length", JNum(TextLength(c.args.content))>>,
               <<"embedding_dimensions", JNum(VecDim(c.vec))>>,
               <<"embedding_model", JStr(<<embeddingModel>>)>>,
               <<"metadata", MetadataOrEmpty(c.args.metadata)>>,
               <<"created_at", JNum(createdAt)>> >>)

\* ghost record of a memory whose store returned success
StoredFact(c, uid) == [uid |-> uid, name |-> c.name, id |-> c.id,
                       content |-> c.args.content,
                       metadata |-> c.args.metadata]

\* the row INSERT INTO ... VALUES ($1, $2, $3, $4) writes: the jsonb column
\* holds the normal form of JSON.stringify(args.metadata || {}); created_at
\* defaults to NOW()
PgRow(c, uid) ==
    [uid |-> uid, coll |-> c.name, given |-> c.args.metadata,
     id |-> c.id, content |-> c.args.content, embedding |-> c.vec,
     metadata_json |->
        JsonbNormal(JsonParse(JsonStringify(MetadataOrEmpty(c.args.metadata)))),
     created_at |-> clock]

\* storeMemory: INSERT INTO ${tableName} ... RETURNING created_at, the
\* success envelope, and the finally block.  The primary key rejects an id
\* the relation already holds; the vector column rejects another dimension.
Insert(p) ==
    LET c   == calls[p]
        t   == PgFold(c.name)
        row == PgRow(c, nextUid)
    IN  /\ At(p, "insert")
        /\ \/ /\ \A r \in tables[t].rows : r.id # c.id
              /\ VecDim(c.vec) = tables[t].dim
              /\ tables' = [tables EXCEPT ![t].rows = @ \cup {row}]
              /\ nextUid' = nextUid + 1
              /\ stored' = stored \cup {StoredFact(c, nextUid)}
              /\ Return(p, SuccessResponse("store", StoreResult(c, clock)), NoGhost)
           \/ /\ \E r \in tables[t].rows : r.id = c.id
              /\ Throw(p, BackendFailure("duplicate_key"))
              /\ UNCHANGED <<tables, nextUid, stored>>
           \/ /\ VecDim(c.vec) # tables[t].dim
              /\ Throw(p, BackendFailure("dimension"))
              /\ UNCHANGED <<tables, nextUid, stored>>
           \/ /\ ThrowInjected(p, BackendFailure("query"))
              /\ UNCHANGED <<tables, nextUid, stored>>
        /\ UNCHANGED <<config, clock, ncalls, forgotten>>

\* ----------------------------------------------------------- search
RECURSIVE Perms(_)
\* every order in which a backend may return the rows of a set
Perms(S) == IF S = {} THEN {<<>>}
            ELSE UNION { { <<x>> \o q : q \in Perms(S \ {x}) } : x \in S }

\* LIMIT k
Take(q, k) == SubSeq(q, 1, IF k < Len(q) THEN k ELSE Len(q))

\* Faulty variant of NearestFirst: ORDER BY ... DESC, farthest first
NearestFirst_FarthestFirst(rows, v, k) ==
    { Take(q, k) : q \in { o \in Perms(rows) :
        \A i \in 1..(Len(o) - 1) :
            Distance(o[i].embedding, v) >= Distance(o[i + 1].embedding, v) } }

\* ORDER BY embedding <-> $1 LIMIT $2 : nearest first, ties in any order
NearestFirst(rows, v, k) ==
    { Take(q, k) : q \in { o \in Perms(rows) :
        \A i \in 1..(Len(o) - 1) :
            Distance(o[i].embedding, v) <= Distance(o[i + 1].embedding, v) } }

\* args.query.trim().split(/\s+/): the terms of the query
QueryTerms(query) == query

\* ts_rank(content_fts, query): grows with the occurrences of the terms
TsRank(row, terms) ==
    Cardinality({ i \in DOMAIN row.content :
                    \E j \in DOMAIN terms : row.content[i] = terms[j] })

\* content_fts @@ to_tsquery('english', 't1 & t2 & ...'): every term occurs
TsMatches(row, terms) ==
    /\ terms # <<>>
    /\ \A j \in DOMAIN terms : \E i \in DOMAIN row.content : row.content[i] = terms[j]

\* to_tsquery('english', $1) parses its argument as a tsquery expression: a
\* term of the query that is itself an operator of that syntax leaves an
\* operator without operand, and the statement fails.
TsOperators == {"&", "|", "!"}
TsQuerySyntaxError(terms) == \E j \in DOMAIN terms : terms[j] \in TsOperators

\* WHERE content_fts @@ ... ORDER BY rank DESC LIMIT $2
BestRankFirst(rows, terms, k) ==
    { Take(q, k) : q \in { o \in Perms({ r \in rows : TsMatches(r, terms) }) :
        \A i \in 1..(Len(o) - 1) : TsRank(o[i], terms) >= TsRank(o[i + 1], terms) } }

\* 1.0 / (1.0 + row.distance), kept as the fraction 1 / (1 + distance)
Similarity(distance) == <<"ratio", 1, 1 + distance>>

\* searchMemory (PostgreSQL): the metadata of a result row.  node-postgres
\* hands a jsonb value over already parsed; a JS string is parsed again and
\* degrades to {} when it is not JSON, a falsy value becomes {}.
PgMetadata(value) ==
    IF value[1] = "str" \/ value = JNull \/ value = <<"bool", "false">>
       \/ value = JNum(0)
    THEN EmptyObj ELSE value

\* one entry of `memories`
Memory(row, similarity, metadata) ==
    Literal(<< <<"id", JStr(row.id)>>,
               <<"content", JStr(row.content)>>,
               <<"similarity", similarity>>,
               <<"metadata", metadata>>,
               <<"created_at", JNum(row.created_at)>> >>)

\* result object of a successful search
SearchResult(args, memories) ==
    Literal(<< <<"query", JStr(args.query)>>,
               <<"mode", JStr(ModeOf(args))>>,
               <<"count", JNum(Len(memories))>>,
               <<"memories", JArr(memories)>> >>)

\* searchMemory (PostgreSQL): the SELECT of the chosen mode over
\* ${tableName}, the normalisation of its rows, the success envelope and the
\* finally block.
PgQuery(p) ==
    LET c     == calls[p]
        rows  == tables[PgFold(c.name)].rows
        k     == LimitOf(c.args)
        sem   == ModeOf(c.args) = <<"semantic">>
        terms == QueryTerms(c.args.query)
        mems(q) == [i \in DOMAIN q |->
                      Memory(q[i],
                             IF sem THEN Similarity(Distance(q[i].embedding, c.vec))
                             ELSE <<"ratio", TsRank(q[i], terms), 1>>,
                             PgMetadata(q[i].metadata_json))]
    IN  /\ At(p, "srch_query")
        /\ \/ /\ sem => \A r \in rows : VecDim(r.embedding) = VecDim(c.vec)
              /\ ~sem => ~TsQuerySyntaxError(terms)
              /\ \E q \in (IF sem THEN NearestFirst(rows, c.vec, k)
                           ELSE BestRankFirst(rows, terms, k)) :
                   Return(p, SuccessResponse("search", SearchResult(c.args, mems(q))),
                          [NoGhost EXCEPT !.hits = q, !.view = rows])
           \/ /\ sem /\ \E r \in rows : VecDim(r.embedding) # VecDim(c.vec)
              /\ Throw(p, BackendFailure("dimension"))
           \/ /\ ~sem /\ TsQuerySyntaxError(terms)
              /\ Throw(p, BackendFailure("tsquery_syntax"))
           \/ ThrowInjected(p, BackendFailure("query"))
        /\ UNCHANGED <<config, tables, clock, ncalls, nextUid, forgotten, stored>>

\* ----------------------------------------------------------- forget
\* result object of a successful forget
ForgetResult(c) ==
    Literal(<< <<"id", JStr(c.args.id)>>, <<"collection", JStr(c.name)>> >>)

\* ghost record of a forget that returned success
ForgottenFact(c) == [name |-> c.name, id |-> c.args.id, uidBound |-> nextUid]

\* forgetMemory (PostgreSQL): the existence check of the table
PgCheckCollection(p) ==
    /\ At(p, "fg_check")
    /\ \/ /\ TableExists(calls[p].name)
          /\ calls' = [calls EXCEPT ![p].pc = "fg_lookup", ![p].sawTable = TRUE]
          /\ Silent /\ UNCHANGED <<leased, failures>>
       \/ /\ ~TableExists(calls[p].name)
          /\ Throw(p, Err("CollectionNotFound", calls[p].name))
       \/ ThrowInjected(p, BackendFailure("query"))
    /\ UNCHANGED <<config, tables, clock, ncalls, nextUid, forgotten, stored>>

\* Faulty variant of PgLookupMemory: the DELETE is issued whatever the
\* lookup returned
PgLookupMemory_Unchecked(p) ==
    /\ At(p, "fg_lookup")
    /\ Goto(p, "fg_delete")
    /\ Silent
    /\ UNCHANGED <<config, tables, leased, clock, ncalls, failures, nextUid,
                   forgotten, stored>>

\* forgetMemory (PostgreSQL): SELECT id FROM ${tableName} WHERE id = $1
PgLookupMemory(p) ==
    LET c == calls[p]
        found == { r \in tables[PgFold(c.name)].rows : r.id = c.args.id }
    IN  /\ At(p, "fg_lookup")
        /\ \/ /\ found # {}
              /\ calls' = [calls EXCEPT ![p].pc = "fg_delete", ![p].sawRow = TRUE]
              /\ Silent /\ UNCHANGED <<leased, failures>>
           \/ /\ found = {}
              /\ Throw(p, Err("MemoryNotFound", c.args.id))
           \/ ThrowInjected(p, BackendFailure("query"))
        /\ UNCHANGED <<config, tables, clock, ncalls, nextUid, forgotten, stored>>

\* Faulty variant of RowsToDelete: a delete whose filter matches nothing
RowsToDelete_Nothing(rows, id) == {}

\* DELETE FROM ${tableName} WHERE id = $1 : the rows a delete removes
RowsToDelete(rows, id) == { r \in rows : r.id = id }

\* forgetMemory (PostgreSQL): the DELETE, the success envelope and the
\* finally block
PgDeleteMemory(p) ==
    LET c    == calls[p]
        t    == PgFold(c.name)
        gone == RowsToDelete(tables[t].rows, c.args.id)
    IN  /\ At(p, "fg_delete")
        /\ \/ /\ tables' = [tables EXCEPT ![t].rows = @ \ gone]
              /\ forgotten' = forgotten \cup {ForgottenFact(c)}
              /\ Return(p, SuccessResponse("delete", ForgetResult(c)),
                        [NoGhost EXCEPT !.removed = gone])
           \/ /\ ThrowInjected(p, BackendFailure("query"))
              /\ UNCHANGED <<tables, forgotten>>
        /\ UNCHANGED <<config, clock, ncalls, nextUid, stored>>

\* ------------------------------------------------------------ Milvus
\* client.hasCollection({collection_name}).value
HasCollectionValue(name) == name \in DOMAIN tables

\* ensureCollection: the existence check, and for an absent collection the
\* registry lookup that follows it synchronously
HasCollection(p) ==
    /\ At(p, "m_has")
    /\ \/ /\ HasCollectionValue(calls[p].name)
          /\ Goto(p, "m_load")
          /\ Silent /\ UNCHANGED <<leased, failures>>
       \/ /\ ~HasCollectionValue(calls[p].name)
          /\ DimensionFor(embeddingModel) # 0
          /\ Goto(p, "m_create")
          /\ Silent /\ UNCHANGED <<leased, failures>>
       \/ /\ ~HasCollectionValue(calls[p].name)
          /\ DimensionFor(embeddingModel) = 0
          /\ Throw(p, UnknownModel(embeddingModel))
       \/ ThrowInjected(p, BackendFailure("rpc"))
    /\ UNCHANGED <<config, tables, clock, ncalls, nextUid, forgotten, stored>>

\* Faulty variant of NewCollection: the vector field always gets the
\* dimension of the default model
NewCollection_DefaultDim(dim) ==
    [dim |-> DimensionFor(DEFAULT_EMBEDDING_MODEL), fts |-> TRUE, vec |-> TRUE,
     loaded |-> FALSE, rows |-> {}]

\* A collection as createCollection leaves it: schema with the FLAT and the
\* BM25 index, not yet loaded
NewCollection(dim) == [dim |-> dim, fts |-> TRUE, vec |-> TRUE, loaded |-> FALSE,
                       rows |-> {}]

\* ensureCollection: client.createCollection({schema, functions, index_params}).
\* Milvus accepts a second creation under one name when the schema is the
\* same and rejects a name that is not an identifier.
CreateCollection(p) ==
    LET n == calls[p].name
        d == DimensionFor(embeddingModel)
    IN  /\ At(p, "m_create")
        /\ \/ /\ IsIdentifier(n)
              /\ n \in DOMAIN tables => tables[n].dim = d
              /\ tables' = [m \in DOMAIN tables \cup {n} |->
                              IF m \in DOMAIN tables THEN tables[m]
                              ELSE NewCollection(d)]
              /\ Goto(p, "m_load")
              /\ Silent /\ UNCHANGED <<leased, failures>>
           \/ /\ ~IsIdentifier(n) \/ (n \in DOMAIN tables /\ tables[n].dim # d)
              /\ Throw(p, BackendFailure("create_collection"))
              /\ UNCHANGED tables
           \/ /\ ThrowInjected(p, BackendFailure("rpc"))
              /\ UNCHANGED tables
        /\ UNCHANGED <<config, clock, ncalls, nextUid, forgotten, stored>>

\* ensureCollection: client.loadCollection, after which ensureCollection
\* returns; searchMemory then dispatches on the mode
LoadCollection(p) ==
    /\ At(p, "m_load")
    /\ \/ /\ AfterEnsure(calls[p]) # "bad_mode"
          /\ tables' = [tables EXCEPT ![calls[p].name].loaded = TRUE]
          /\ Goto(p, AfterEnsure(calls[p]))
          /\ Silent /\ UNCHANGED <<leased, failures>>
       \/ /\ AfterEnsure(calls[p]) = "bad_mode"
          /\ tables' = [tables EXCEPT ![calls[p].name].loaded = TRUE]
          /\ Throw(p, UnknownSearchMode(calls[p].args))
       \/ /\ ThrowInjected(p, BackendFailure("rpc"))
          /\ UNCHANGED tables
    /\ UNCHANGED <<config, clock, ncalls, nextUid, forgotten, stored>>

\* the entity storeMemory inserts: metadata as the JSON text of
\* args.metadata || {}, created_at as the time of the call
MilvusRow(c, uid) ==
    [uid |-> uid, coll |-> c.name, given |-> c.args.metadata,
     id |-> c.id, content |-> c.args.content, embedding |-> c.vec,
     metadata_json |-> JsonStringify(MetadataOrEmpty(c.args.metadata)),
     created_at |-> clock]

\* storeMemory (Milvus): client.insert.  Milvus does not compare the primary
\* key of an inserted entity with the entities it holds.
MilvusInsert(p) ==
    LET c   == calls[p]
        row == MilvusRow(c, nextUid)
    IN  /\ At(p, "m_insert")
        /\ \/ /\ VecDim(c.vec) = tables[c.name].dim
              /\ tables' = [tables EXCEPT ![c.name].rows = @ \cup {row}]
              /\ nextUid' = nextUid + 1
              /\ calls' = [calls EXCEPT ![p].pc = "m_flush", ![p].uid = nextUid]
              /\ Silent /\ UNCHANGED <<leased, failures>>
           \/ /\ VecDim(c.vec) # tables[c.name].dim
              /\ Throw(p, BackendFailure("dimension"))
              /\ UNCHANGED <<tables, nextUid>>
           \/ /\ ThrowInjected(p, BackendFailure("rpc"))
              /\ UNCHANGED <<tables, nextUid>>
        /\ UNCHANGED <<config, clock, ncalls, forgotten, stored>>

\* storeMemory (Milvus): client.flush and the success envelope
Flush(p) ==
    LET c == calls[p]
    IN  /\ At(p, "m_flush")
        /\ \/ /\ stored' = stored \cup {StoredFact(c, c.uid)}
              /\ Return(p, SuccessResponse("store", StoreResult(c, clock)), NoGhost)
           \/ /\ ThrowInjected(p, BackendFailure("rpc"))
              /\ UNCHANGED stored
        /\ UNCHANGED <<config, tables, clock, ncalls, nextUid, forgotten>>

\* a hit as the Milvus client returns it: the output fields and a score (the
\* L2 distance for a dense search, the BM25 relevance for a sparse one).  The
\* client library documents `score` and `id`; the handler also reads a
\* `distance` member, which a build of the client may or may not set.
MilvusItem(row, score, withDistance) ==
    [row |-> row,
     distance |-> IF withDistance THEN JNum(score) ELSE Undefined,
     score |-> JNum(score)]

\* distance !== undefined ? 1.0 / (1.0 + distance) : (score || 1.0)
MilvusSimilarity(item) ==
    IF item.distance # Undefined THEN Similarity(item.distance[2])
    ELSE IF item.score = JNum(0) THEN <<"ratio", 1, 1>>
    ELSE <<"ratio", item.score[2], 1>>

\* BM25 relevance of a row for the raw query text: the occurrences of its terms
Bm25Score(row, terms) == TsRank(row, terms)

\* sparse search: rows with a positive relevance, best first
Bm25BestFirst(rows, terms, k) ==
    { Take(q, k) : q \in { o \in Perms({ r \in rows : Bm25Score(r, terms) > 0 }) :
        \A i \in 1..(Len(o) - 1) :
            Bm25Score(o[i], terms) >= Bm25Score(o[i + 1], terms) } }

\* JSON.parse(metadata_json || '{}')
MilvusMetadata(text) == IF text = Undefined THEN EmptyObj ELSE JsonParse(text)

\* searchMemory (Milvus): client.search over `embedding` or `sparse`, the
\* normalisation of the hits and the success envelope
MilvusSearch(p) ==
    LET c     == calls[p]
        rows  == tables[c.name].rows
        k     == LimitOf(c.args)
        sem   == ModeOf(c.args) = <<"semantic">>
        terms == QueryTerms(c.args.query)
        item(r, wd) == MilvusItem(r, IF sem THEN Distance(r.embedding, c.vec)
                                     ELSE Bm25Score(r, terms), wd)
        mems(q, wd) == [i \in DOMAIN q |->
                          Memory(q[i], MilvusSimilarity(item(q[i], wd)),
                                 MilvusMetadata(q[i].metadata_json))]
    IN  /\ At(p, "m_search")
        /\ \/ /\ sem => VecDim(c.vec) = tables[c.name].dim
              /\ \E q \in (IF sem THEN NearestFirst(rows, c.vec, k)
                           ELSE Bm25BestFirst(rows, terms, k)) :
                   \E wd \in BOOLEAN :
                      Return(p, SuccessResponse("search",
                                                SearchResult(c.args, mems(q, wd))),
                             [NoGhost EXCEPT !.hits = q, !.view = rows])
           \/ /\ sem /\ VecDim(c.vec) # tables[c.name].dim
              /\ Throw(p, BackendFailure("dimension"))
           \/ ThrowInjected(p, BackendFailure("rpc"))
        /\ UNCHANGED <<config, tables, clock, ncalls, nextUid, forgotten, stored>>

\* Faulty variant of MilvusCheckCollection: forgetMemory goes to
\* ensureCollection without asking whether the collection exists
MilvusCheckCollection_Unchecked(p) ==
    /\ At(p, "m_fhas")
    /\ ~FalsyStr(calls[p].name)
    /\ Goto(p, "m_has")
    /\ Silent
    /\ UNCHANGED <<config, tables, leased, clock, ncalls, failures, nextUid,
                   forgotten, stored>>

\* forgetMemory (Milvus): client.hasCollection, then the synchronous start of
\* ensureCollection.  The client rejects a call without a collection name.
MilvusCheckCollection(p) ==
    LET n == calls[p].name
    IN  /\ At(p, "m_fhas")
        /\ \/ /\ ~FalsyStr(n) /\ HasCollectionValue(n)
              /\ calls' = [calls EXCEPT ![p].pc = "m_has", ![p].sawTable = TRUE]
              /\ Silent /\ UNCHANGED <<leased, failures>>
           \/ /\ ~FalsyStr(n) /\ ~HasCollectionValue(n)
              /\ Throw(p, Err("CollectionNotFound", n))
           \/ /\ FalsyStr(n)
              /\ Throw(p, BackendFailure("collection_name_required"))
           \/ ThrowInjected(p, BackendFailure("rpc"))
        /\ UNCHANGED <<config, tables, clock, ncalls, nextUid, forgotten, stored>>

\* forgetMemory (Milvus): client.query({filter: `id == "${args.id}"`, limit: 1})
MilvusLookupMemory(p) ==
    LET c == calls[p]
        found == { r \in tables[c.name].rows : r.id = c.args.id }
    IN  /\ At(p, "m_query")
        /\ \/ /\ found # {}
              /\ calls' = [calls EXCEPT ![p].pc = "m_delete", ![p].sawRow = TRUE]
              /\ Silent /\ UNCHANGED <<leased, failures>>
           \/ /\ found = {}
              /\ Throw(p, Err("MemoryNotFound", c.args.id))
           \/ ThrowInjected(p, BackendFailure("rpc"))
        /\ UNCHANGED <<config, tables, clock, ncalls, nextUid, forgotten, stored>>

\* forgetMemory (Milvus): client.delete({filter: `id == "${args.id}"`}) and
\* the success envelope
MilvusDeleteMemory(p) ==
    LET c    == calls[p]
        gone == RowsToDelete(tables[c.name].rows, c.args.id)
    IN  /\ At(p, "m_delete")
        /\ \/ /\ tables' = [tables EXCEPT ![c.name].rows = @ \ gone]
              /\ forgotten' = forgotten \cup {ForgottenFact(c)}
              /\ Return(p, SuccessResponse("delete", ForgetResult(c)),
                        [NoGhost EXCEPT !.removed = gone])
           \/ /\ ThrowInjected(p, BackendFailure("rpc"))
              /\ UNCHANGED <<tables, forgotten>>
        /\ UNCHANGED <<config, clock, ncalls, nextUid, stored>>

\* ------------------------------------------------------------- time
\* a millisecond passes
Tick ==
    /\ clock < MaxClock
    /\ clock' = clock + 1
    /\ Silent
    /\ UNCHANGED <<config, tables, leased, calls, ncalls, failures, nextUid,
                   forgotten, stored>>

\* ----------------------------------------------------------- inputs
StoreArgs(collections, contents, metadatas) ==
    { [NoArgs EXCEPT !.present = TRUE, !.collection = c, !.content = t,
                     !.metadata = m] :
        c \in collections, t \in contents, m \in metadatas }

SearchArgs(collections, queries, modes, limits) ==
    { [NoArgs EXCEPT !.present = TRUE, !.collection = c, !.query = q,
                     !.mode = m, !.limit = l] :
        c \in collections, q \in queries, m \in modes, l \in limits }

ForgetArgs(collections, ids) ==
    { [NoArgs EXCEPT !.present = TRUE, !.collection = c, !.id = i] :
        c \in collections, i \in ids }

\* ids a caller can have learnt from the backend
KnownIds == { r.id : r \in AllRows }

NestedMetadata ==
    JObj(<< <<"z", JNum(1)>>,
            <<"a", JObj(<< <<"n", JNull>>,
                           <<"b", JTrue>>,
                           <<"l", JArr(<< JNum(2), JObj(<< <<"k", JStr(<<"v">>)>> >>) >>)>>
                        >>)>> >>)

Collections == { Undefined, <<"a">>, <<"A">> }
OtherId     == GeneratedId(1, <<"k">>)

\* store_memory arguments: a plain memory in every collection, one with
\* nested metadata and a longer text, one under a name that is no identifier,
\* and a call without arguments
StoreInputs ==
    StoreArgs(Collections, {<<"cat">>}, {Undefined})
      \cup StoreArgs({<<"a">>}, {<<"cat", "dog">>}, {NestedMetadata})
      \cup StoreArgs({<<"a">>}, {<<"fox">>}, {Undefined})
      \cup StoreArgs({<<"1">>}, {<<"cat">>}, {Undefined})
      \cup {NoArgs}

\* search_memory arguments: a semantic search of limit 1 in every collection,
\* one of limit 0 and one of default limit, a full-text one, one whose query
\* is an operator sign, and one of an unknown mode
SearchInputs ==
    SearchArgs(Collections, {<<"cat">>}, {Undefined}, {JNum(1)})
      \cup SearchArgs({<<"a">>}, {<<"cat">>}, {Undefined}, {JNum(0)})
      \cup SearchArgs({<<"a">>}, {<<"cat", "dog">>}, {Undefined}, {Undefined})
      \cup SearchArgs({<<"a">>}, {<<"cat">>}, {<<"fulltext">>, <<"invalid_mode">>},
                      {Undefined})
      \cup SearchArgs({<<"a">>}, {<<"&">>}, {<<"fulltext">>}, {Undefined})
      \cup {NoArgs}

\* forget_memory arguments: every id the backend holds, a well-formed id
\* that may be absent, a malformed one, and a well-formed id under a name
\* that is no identifier
ForgetInputs ==
    ForgetArgs(Collections, KnownIds \cup {OtherId})
      \cup ForgetArgs({Undefined, <<"a">>}, {Undefined, <<"x">>})
      \cup ForgetArgs({<<"1">>}, {OtherId})
      \cup {NoArgs}

\* ------------------------------------------------------ specification
\* The backend outlives the server process: it is empty, or holds a
\* collection that a server configured with the default model provisioned.
\* The server runs the default model, an id the registry does not know, or,
\* against a backend provisioned under the default model, a second
\* registered model of another dimension.
OTHER_EMBEDDING_MODEL == "openai/text-embedding-3-small"

Provisioned == [dim |-> DimensionFor(DEFAULT_EMBEDDING_MODEL), fts |-> TRUE,
                vec |-> TRUE, loaded |-> TRUE, rows |-> {}]

Init ==
    /\ backend \in {"postgres", "milvus"}
    /\ fixedCollection \in {Undefined, <<"a">>}
    /\ embeddingModel \in {DEFAULT_EMBEDDING_MODEL, "invalid/model",
                           OTHER_EMBEDDING_MODEL}
    /\ tables \in {<< >>, (<<"a">> :> Provisioned)}
    /\ embeddingModel = OTHER_EMBEDDING_MODEL => tables # << >>
    /\ leased = 0
    /\ clock = 1
    /\ calls = [p \in Procs |-> Idle]
    /\ resp = NoResp
    /\ ncalls = [store |-> 0, search |-> 0, forget |-> 0]
    /\ failures = 0
    /\ nextUid = 1
    /\ forgotten = {}
    /\ stored = {}

\* one step of a call in flight
Step(p) ==
    \/ PoolConnect(p)
    \/ CheckTable(p)
    \/ CreateTable(p)
    \/ CreateFtsIndex(p)
    \/ CreateVectorIndex(p)
    \/ GenerateEmbedding(p)
    \/ Insert(p)
    \/ PgQuery(p)
    \/ PgCheckCollection(p)
    \/ PgLookupMemory(p)
    \/ PgDeleteMemory(p)
    \/ HasCollection(p)
    \/ CreateCollection(p)
    \/ LoadCollection(p)
    \/ MilvusInsert(p)
    \/ Flush(p)
    \/ MilvusSearch(p)
    \/ MilvusCheckCollection(p)
    \/ MilvusLookupMemory(p)
    \/ MilvusDeleteMemory(p)

\* The server takes the requests of one client over stdio.  A client that
\* awaits each response before its next request has one call in flight.
Next ==
    \/ \E a \in StoreInputs : storeMemory(1, a)
    \/ \E a \in SearchInputs : searchMemory(1, a)
    \/ \E a \in ForgetInputs :
          ncalls.forget < MaxAwaitedForgets /\ forgetMemory(1, a)
    \/ Step(1)
    \/ Tick

Spec == Init /\ [][Next]_vars

\* Requests of several clients, or of one that does not await, overlap: the
\* handlers interleave at their awaits.
ConcurrentStoreInputs  == StoreArgs({<<"a">>}, {<<"cat">>}, {Undefined})
ConcurrentSearchInputs ==
    SearchArgs({<<"a">>}, {<<"cat">>}, {Undefined, <<"fulltext">>}, {JNum(1)})
ConcurrentForgetInputs ==
    ForgetArgs({<<"a">>}, KnownIds \cup { f.id : f \in forgotten })

NextConcurrent ==
    \/ \E p \in Procs : \E a \in ConcurrentStoreInputs : storeMemory(p, a)
    \/ \E p \in Procs : \E a \in ConcurrentSearchInputs : searchMemory(p, a)
    \/ \E p \in Procs : \E a \in ConcurrentForgetInputs : forgetMemory(p, a)
    \/ \E p \in Procs : Step(p)
    \/ Tick

SpecConcurrent == Init /\ [][NextConcurrent]_vars

TypeOK == /\ leased \in 0..NumProcs
          /\ failures \in 0..MaxFailures
          /\ \A o \in DOMAIN ncalls : ncalls[o] \in 0..MaxCalls[o]

\* ------------------------------------------------------------ properties
\* What a caller reads off a response r
JFalse      == <<"bool", "false">>
Envelope(r) == JsonParse(r.text)
Succeeded(r) == r.op # "none" /\ Get(Envelope(r), "success") = JTrue
ErrorOf(r)  == IF Get(Envelope(r), "success") = JTrue THEN NoErr
               ELSE Get(Envelope(r), "error")
FailedWith(r, kind) == r.op # "none" /\ ErrKind(ErrorOf(r)) = kind
ResultOf(r) == Get(Envelope(r), "result")
MemoriesOf(r) == Get(ResultOf(r), "memories")[2]
Semantic(r) == FalsyStr(r.args.mode) \/ r.args.mode = <<"semantic">>
\* a call whose failure, if any, is the program's own
Undisturbed(r) == ~r.injected
\* the id has the shape mem_<digits>_<lowercase alphanumerics>
WellFormed(id) == MatchesIdPattern(id)
\* the call started on this step, so a response on it precedes every await
ReturnsAtEntry == ncalls' # ncalls

C2_ConcurrentFirstStores ==
    ( /\ resp.op = "store" /\ resp.args.present
      /\ ncalls["search"] = 0 /\ ncalls["forget"] = 0
      /\ resp.newCollection
      /\ Undisturbed(resp)
      /\ DimensionFor(embeddingModel) # 0
      /\ ErrorOf(resp) # BackendFailure("duplicate_key") )
    => /\ Succeeded(resp)
       /\ \E r \in tables[TableOf(resp.name)].rows :
             r.id = Get(ResultOf(resp), "id")[2]

\* C3 as stated: once a forget of an id has returned success, no later
\* search of that collection returns a memory with that id.
C3_ForgottenIdNeverReturned ==
    (resp.op = "search" /\ Succeeded(resp)) =>
       \A f \in resp.forgottenAtStart :
          f.name = resp.name =>
             \A i \in DOMAIN resp.hits : resp.hits[i].id # f.id

\* C3 amended: once a forget of an id has returned success, a later search
\* of that collection returns a memory with that id only if a store wrote it
\* after the forget, having generated the same id again.
C3_ForgottenMemoryNeverReturned ==
    (resp.op = "search" /\ Succeeded(resp)) =>
       \A f \in resp.forgottenAtStart :
          f.name = resp.name =>
             \A i \in DOMAIN resp.hits :
                resp.hits[i].id = f.id => resp.hits[i].uid >= f.uidBound

\* a search that follows a forget in its collection and still finds a memory
C3_Witness ==
    /\ resp.op = "search" /\ Succeeded(resp)
    /\ resp.hits # <<>>
    /\ \E f \in resp.forgottenAtStart :
          f.name = resp.name /\ \A i \in DOMAIN resp.hits : resp.hits[i].id # f.id

\* the memory m of a successful store is still in the rows a search r read
StillStored(r, m) == \E row \in r.view : row.uid = m.uid

C5_CollectionsIsolated ==
    /\ (resp.op = "search" /\ Succeeded(resp)) =>
          \A i \in DOMAIN resp.hits : resp.hits[i].coll = resp.name
    /\ (resp.op = "forget" /\ Succeeded(resp)) =>
          \A r \in resp.removed : r.coll = resp.name

\* the metadata value a caller expects back for the argument it passed
ExpectedMetadata(given) == IF given = Undefined THEN EmptyObj ELSE given

Supplied(args) == args.collection # Undefined /\ args.collection # <<>>
Target(args)   == IF Supplied(args) THEN args.collection ELSE fixedCollection

\* what C7 says of the response r that a step returns
C7_Step(r) ==
    (r.op \in {"store", "search"} /\ r.args.present) =>
       /\ (Target(r.args) # Undefined /\ Target(r.args) # <<>>) =>
             /\ r.name = Target(r.args)
             /\ (r.op = "store" /\ Succeeded(r)) =>
                   /\ Get(ResultOf(r), "collection") = JStr(Target(r.args))
                   /\ \E row \in tables'[TableOf(Target(r.args))].rows :
                         /\ row.id = Get(ResultOf(r), "id")[2]
                         /\ row.coll = Target(r.args)
             /\ (r.op = "search" /\ Succeeded(r)) =>
                   r.view = tables'[TableOf(Target(r.args))].rows
       /\ (Target(r.args) = Undefined \/ Target(r.args) = <<>>) =>
             /\ FailedWith(r, "CollectionRequired")
             /\ ReturnsAtEntry
             /\ UNCHANGED <<tables, leased>>

C8_Step(r) ==
    (r.op = "forget" /\ r.args.present /\ ~WellFormed(r.args.id)) =>
       /\ FailedWith(r, "InvalidIdFormat")
       /\ ReturnsAtEntry
       /\ UNCHANGED <<tables, leased>>

C9_Step(r) ==
    /\ ( /\ r.op = "forget" /\ r.args.present /\ WellFormed(r.args.id)
         /\ Undisturbed(r)
         /\ r.name # Undefined /\ r.name # <<>>
         /\ r.name \notin DOMAIN tables )
       => FailedWith(r, "CollectionNotFound")
    /\ (r.op = "forget" \/ \E p \in Procs : calls[p].op = "forget")
       => DOMAIN tables' = DOMAIN tables

C10_Step(r) ==
    ( /\ r.op = "forget" /\ r.args.present /\ WellFormed(r.args.id)
      /\ Undisturbed(r)
      /\ r.name \in DOMAIN tables
      /\ \A row \in tables[r.name].rows : row.id # r.args.id )
    => /\ FailedWith(r, "MemoryNotFound")
       /\ tables' = tables

ModelUnregistered == embeddingModel \notin DOMAIN EMBEDDING_DIMENSIONS
\* the name is one a collection can be given
Nameable(name) == ~FalsyStr(name) /\ IsIdentifier(name)

\* what C11 says of a step and of the response r it returns
C11_Step(r) ==
    /\ ( /\ r.op = "store" /\ r.args.present /\ Undisturbed(r)
         /\ ModelUnregistered
         /\ Nameable(r.name) )
       => /\ FailedWith(r, "UnknownModel")
          /\ \A i \in DOMAIN AvailableModels :
                \E j \in DOMAIN ErrorOf(r)[3] : ErrorOf(r)[3][j] = AvailableModels[i]
    /\ (ModelUnregistered /\ (r.op = "store" \/ \E p \in Procs : calls[p].op = "store"))
       => tables' = tables

\* C11: store on a server whose embedding model id is absent from the model
\* registry fails with UnknownModel, the error text listing the available
\* model ids, whether or not the target collection exists, and no step of it
\* writes a memory or creates a collection.
C11_UnknownModelRejected == [][C11_Step(resp')]_vars

\* the mode argument is given and is neither "semantic" nor "fulltext"
UnknownMode(args) == ModeOf(args) \notin {<<"semantic">>, <<"fulltext">>}

\* C12: search called with a mode other than "semantic" or "fulltext" fails
\* with UnknownSearchMode, the message holding the offending mode value,
\* whether the collection exists or not and whatever model is configured.
C12_UnknownModeRejected ==
    ( /\ resp.op = "search" /\ resp.args.present /\ Undisturbed(resp)
      /\ Nameable(resp.name)
      /\ UnknownMode(resp.args) )
    => /\ FailedWith(resp, "UnknownSearchMode")
       /\ ErrorOf(resp)[3] = resp.args.mode

\* positions of a call inside ensureTable / ensureCollection
EnsurePcs == {"ens_connect", "ens_check", "ens_create", "ens_fts", "ens_vec",
              "m_has", "m_create", "m_load"}
\* an ensure for the name of the call c created its collection before c
\* started: a store under that name has returned success since
CreatedEarlier(c) == \E m \in c.storedAtStart : m.name = c.name

\* what C13 says of a step of the call in slot p
C13_Step(p) ==
    (calls[p].pc \in EnsurePcs /\ CreatedEarlier(calls[p])) =>
       /\ tables' = tables
       /\ calls'[p].op = "idle" =>
             resp'.injected \/ FailedWith(resp', "UnknownSearchMode")

\* C13: provisioning is idempotent: an ensure for a collection name that an
\* earlier ensure created succeeds, leaves the schema, the indexes and the
\* memories of the collection as they were and creates no second structure.
C13_ProvisioningIdempotent == [][\A p \in Procs : C13_Step(p)]_vars

\* positions of a call whose ensureTable / ensureCollection has returned
EnsuredPcs == {"embed", "ins_connect", "insert", "srch_connect", "srch_embed",
               "srch_query", "m_insert", "m_flush", "m_search", "m_query",
               "m_delete"}

\* C14: whenever ensure has returned successfully for a collection, also
\* after an earlier provisioning attempt that failed part-way, the collection
\* exists with its id, content, embedding and lexical fields and with both
\* the vector similarity index and the lexical index.
C14_EnsuredCollectionComplete ==
    \A p \in Procs :
       calls[p].pc \in EnsuredPcs =>
          /\ TableOf(calls[p].name) \in DOMAIN tables
          /\ tables[TableOf(calls[p].name)].fts
          /\ tables[TableOf(calls[p].name)].vec

\* the rows that the store call behind the response r wrote and that are
\* still in the backend
WrittenBy(r) == { row \in AllRows : row.uid = r.uid }

\* C15: store is all-or-nothing: it returns success:true only when
\* provisioning, embedding, the insert and every step after the insert
\* succeeded, its memory then being in the collection, and a store that
\* returns success:false has left no memory of that call in the collection.
C15_StoreAllOrNothing ==
    (resp.op = "store" /\ resp.args.present) =>
       /\ Succeeded(resp) =>
             /\ ~resp.injected
             /\ \E row \in tables[TableOf(resp.name)].rows :
                   row.id = Get(ResultOf(resp), "id")[2]
       /\ ~Succeeded(resp) => WrittenBy(resp) = {}

\* C16: a call that has returned, with success or on any failure path, holds
\* no pooled connection: every connection acquired is released exactly once,
\* so the clients checked out are those of the calls in flight that hold one,
\* and none is checked out when no call is in flight.
C16_ConnectionsReleased ==
    /\ leased = Cardinality({ p \in Procs : calls[p].conn })
    /\ (\A p \in Procs : calls[p].op = "idle") => leased = 0

\* a query fails under a call that holds a client while another call holds
\* one too
C16_Witness ==
    /\ backend = "postgres"
    /\ resp.op # "none" /\ resp.injected
    /\ ErrorOf(resp) = BackendFailure("query")
    /\ leased = 1
    /\ \E p \in Procs : calls[p].conn

\* C17: search of a collection name that does not exist yet provisions the
\* collection and returns success:true with count 0 and an empty memories
\* list, in semantic and in fulltext mode, rather than an error.
C17_SearchProvisionsEmpty ==
    ( /\ resp.op = "search" /\ resp.args.present /\ Undisturbed(resp)
      /\ resp.newCollection
      /\ Nameable(resp.name)
      /\ ~ModelUnregistered
      /\ ~UnknownMode(resp.args) )
    => /\ Succeeded(resp)
       /\ Get(ResultOf(resp), "count") = JNum(0)
       /\ MemoriesOf(resp) = <<>>
       /\ TableOf(resp.name) \in DOMAIN tables

\* the limit a caller asks for: the value it supplies, 10 when it supplies none
RequestedLimit(args) == IF args.limit = Undefined THEN 10 ELSE args.limit[2]

\* C18: search hands the limit the caller supplies to the backend unchanged,
\* whatever its value, and uses 10 only when no limit is supplied; the
\* memories list never has more entries than that limit, and count is the
\* length of the list.
C18_LimitPassedThrough ==
    (resp.op = "search" /\ Succeeded(resp)) =>
       /\ LimitOf(resp.args) = RequestedLimit(resp.args)
       /\ Len(MemoriesOf(resp)) <= RequestedLimit(resp.args)
       /\ Get(ResultOf(resp), "count") = JNum(Len(MemoriesOf(resp)))

\* comparison of two fractions <<"ratio", n, d>> with positive denominators
RatioLeq(x, y) == x[2] * y[3] <= y[2] * x[3]
\* the distance of a returned row from the query of the search behind r
HitDistance(r, i) ==
    Distance(r.hits[i].embedding, embedText(embeddingModel, r.args.query))
SimilarityOf(r, i) == Get(MemoriesOf(r)[i], "similarity")

\* C19: in semantic mode the results come in ascending order of distance
\* and the similarity of each is 1/(1+distance): it lies in (0,1], is 1
\* exactly at distance 0 and does not increase along the list.
C19_SimilarityFromDistance ==
    (resp.op = "search" /\ Succeeded(resp) /\ Semantic(resp)) =>
       /\ \A i \in DOMAIN resp.hits :
             /\ SimilarityOf(resp, i) = <<"ratio", 1, 1 + HitDistance(resp, i)>>
             /\ SimilarityOf(resp, i)[2] > 0
             /\ RatioLeq(SimilarityOf(resp, i), <<"ratio", 1, 1>>)
             /\ (SimilarityOf(resp, i)[2] = SimilarityOf(resp, i)[3])
                   <=> (HitDistance(resp, i) = 0)
       /\ \A i \in 1..(Len(resp.hits) - 1) :
             /\ HitDistance(resp, i) <= HitDistance(resp, i + 1)
             /\ RatioLeq(SimilarityOf(resp, i + 1), SimilarityOf(resp, i))

\* the term occurs in the content
Contains(content, term) == \E i \in DOMAIN content : content[i] = term
\* the memories of the collection a response is about
RowsOf(r) == IF TableOf(r.name) \in DOMAIN tables
             THEN tables[TableOf(r.name)].rows ELSE {}
\* the memories of that collection in which a term of the query occurs
Matching(r) == { row \in RowsOf(r) :
                   \E j \in DOMAIN r.args.query : Contains(row.content, r.args.query[j]) }

\* C20: in fulltext mode a memory is returned only if its content contains
\* terms of the query: a query whose terms occur in no stored memory returns
\* success:true with count 0 and memories [], and a query term that occurs in
\* exactly one stored memory returns exactly that one memory.
C20_FulltextMatchesTerms ==
    ( /\ resp.op = "search" /\ resp.args.present
      /\ resp.args.mode = <<"fulltext">> )
    => /\ Succeeded(resp) =>
             \A i \in DOMAIN resp.hits : resp.hits[i] \in Matching(resp)
       /\ ( /\ Undisturbed(resp) /\ Nameable(resp.name) /\ ~ModelUnregistered
            /\ Matching(resp) = {} )
          => /\ Succeeded(resp)
             /\ Get(ResultOf(resp), "count") = JNum(0)
             /\ MemoriesOf(resp) = <<>>
       /\ ( /\ Undisturbed(resp) /\ Nameable(resp.name) /\ ~ModelUnregistered
            /\ Len(resp.args.query) = 1
            /\ Cardinality(Matching(resp)) = 1
            /\ LimitOf(resp.args) >= 1 )
          => /\ Succeeded(resp)
             /\ Len(resp.hits) = 1
             /\ resp.hits[1] \in Matching(resp)
             /\ Get(MemoriesOf(resp)[1], "content") = JStr(resp.hits[1].content)

\* C21: on a server constructed with a fixed default collection the
\* collection argument is left out of the arguments that store_memory,
\* search_memory and forget_memory accept, and no call reads or writes a
\* collection other than the fixed one; without a fixed default the argument
\* is offered on all three tools.
C21_FixedCollectionOnly ==
    /\ \A t \in DOMAIN ListTools :
          ("collection" \in ListTools[t]) <=> ~HasFixedCollection
    /\ HasFixedCollection =>
          /\ Succeeded(resp) => resp.name = fixedCollection
          /\ DOMAIN tables \subseteq {TableOf(fixedCollection)}
          /\ \A row \in AllRows : row.coll = fixedCollection

\* the id in the result of a successful store
StoredId(r) == Get(ResultOf(r), "id")[2]

\* C22: every id that a successful store returns has the shape
\* mem_<digits>_<lowercase alphanumerics>, whatever the timestamp and
\* whatever the random suffix generator produced, and so passes the id check
\* of forget: every stored memory can be deleted through forget.
C22_StoredIdAccepted ==
    (resp.op = "store" /\ Succeeded(resp)) =>
       /\ MatchesIdPattern(StoredId(resp))
       /\ ~InvalidIdFormat(StoredId(resp))

\* C23: in every reachable state no two memories of one collection share an
\* id: a store whose generated id is already in the target collection fails
\* with a backend failure and leaves the memory that holds the id as it was.
C23_IdUniqueInCollection ==
    /\ \A n \in DOMAIN tables :
          \A r1, r2 \in tables[n].rows : r1.id = r2.id => r1 = r2
    /\ (resp.op = "store" /\ Succeeded(resp)) =>
          Cardinality({ row \in RowsOf(resp) : row.id = StoredId(resp) }) = 1

\* what C24 says of a step
C24_Step ==
    /\ \A n \in DOMAIN tables :
          /\ n \in DOMAIN tables'
          /\ tables'[n].dim = tables[n].dim
    /\ \A n \in DOMAIN tables' \ DOMAIN tables :
          /\ embeddingModel \in DOMAIN EMBEDDING_DIMENSIONS
          /\ tables'[n].dim = EMBEDDING_DIMENSIONS[embeddingModel]
    /\ \A n \in DOMAIN tables' :
          \A row \in tables'[n].rows : VecDim(row.embedding) = tables'[n].dim

\* C24: the vector dimension of a collection is set when it is created, to
\* the registry dimension of the model active then, and never changes,
\* whatever model later store and search calls run with; every embedding
\* stored in the collection has exactly that length.
C24_DimensionFixedAtCreation == [][C24_Step]_vars

\* a server on a model of another dimension has created a collection of its
\* own and is refused a store into the one provisioned before
C24_Witness ==
    /\ embeddingModel = OTHER_EMBEDDING_MODEL
    /\ resp.op = "store" /\ ErrorOf(resp) = BackendFailure("dimension")
    /\ \E n, m \in DOMAIN tables : tables[n].dim # tables[m].dim


\* C25: of the forget calls issued for the id of one stored memory, one
\* returns success and every other one MemoryNotFound: a forget returns
\* success only when its own delete removed the memory, and a forget that
\* got past the collection check and was not failed by the backend either
\* succeeds or answers MemoryNotFound.
C25_OneForgetSucceeds ==
    resp.op = "forget" =>
        /\ Succeeded(resp) => resp.removed # {}
        /\ (resp.sawTable /\ ~resp.injected /\ ~Succeeded(resp)) =>
               FailedWith(resp, "MemoryNotFound")


\* C26: a store call and a semantic search call invoke the embedding
\* capability at most once, and not again after it has failed: a call that
\* answers with an embedding failure has invoked it exactly once.  A
\* full-text search and a forget never invoke it.
EmbedsAllowed(op, args) ==
    IF op = "store" \/ (op = "search" /\ ModeOf(args) = <<"semantic">>)
    THEN 1 ELSE 0

C26_EmbeddingAtMostOnce ==
    /\ \A p \in Procs :
           calls[p].embeds <= EmbedsAllowed(calls[p].op, calls[p].args)
    /\ resp.op # "none" =>
         /\ resp.embeds <= EmbedsAllowed(resp.op, resp.args)
         /\ (FailedWith(resp, "GenerationFailed")
               \/ FailedWith(resp, "CredentialsMissing")) => resp.embeds = 1

\* a call ends on the failure of its one embedding request
C26_Witness ==
    /\ resp.op \in {"store", "search"}
    /\ resp.injected
    /\ FailedWith(resp, "GenerationFailed")
    /\ resp.embeds = 1


\* C27: no call waits on the embedding capability while it holds a pooled
\* backend connection: a call that is at its embedding request has no client
\* checked out.
C27_NoConnectionWhileEmbedding ==
    \A p \in Procs : calls[p].pc \in EmbedPcs => ~calls[p].conn


\* C28: a search call that returns success:false leaves the backend as it
\* was when the call started: a collection that did not exist then does not
\* exist now, and the call wrote no memory and removed none.
C28_FailedSearchChangesNothing ==
    (resp.op = "search" /\ ~Succeeded(resp)) =>
        /\ resp.newCollection => TableOf(resp.name) \notin DOMAIN tables
        /\ resp.uid = 0
        /\ resp.removed = {}


\* where the next statement of a PostgreSQL handler has the collection name
\* in its text: CREATE TABLE, CREATE INDEX, INSERT, the search SELECT, and
\* the SELECT and DELETE of forget
NameInTextPcs == {"ens_create", "ens_fts", "ens_vec", "insert", "srch_query",
                  "fg_lookup", "fg_delete"}

\* C29: on PostgreSQL no statement whose text holds the collection name is
\* sent unless the name is an identifier, and store, search and forget (the
\* latter given a well-formed id) answer a name that is no identifier with
\* InvalidCollectionName, unless the backend failed first.
C29_OnlyIdentifiersInStatements ==
    backend = "postgres" =>
        /\ \A p \in Procs :
               calls[p].pc \in NameInTextPcs => IsIdentifier(calls[p].name)
        /\ ( /\ resp.op # "none" /\ Undisturbed(resp)
             /\ ~FalsyStr(resp.name) /\ ~IsIdentifier(resp.name)
             /\ resp.op = "forget" => WellFormed(resp.args.id) )
           => FailedWith(resp, "InvalidCollectionName")


\* C30: a forget with a well-formed id for which neither the arguments nor
\* the configuration name a collection fails with CollectionRequired, and
\* not with CollectionNotFound, and it does so before its first await: it
\* takes no connection and sends no request to the backend.
C30_ForgetNeedsCollection ==
    (resp.op = "forget" /\ resp.args.present /\ FalsyStr(resp.name)
       /\ WellFormed(resp.args.id) /\ Undisturbed(resp))
    => /\ FailedWith(resp, "CollectionRequired")
       /\ resp.pc = "idle"

====
